---- MODULE Spec2Model ----
(***************************************************************************)
(* The customer order page (src/static/order.js) together with the part of *)
(* the ordering server it talks to.  The page keeps a cart in memory and   *)
(* in localStorage, renders the menu, the cart list and the checkout       *)
(* button, and submits the cart with POST /api/v1/orders.  Every handler   *)
(* of the page is one action; every await of a fetch splits a handler into *)
(* the part before the request and the part run on its response.           *)
(***************************************************************************)
EXTENDS Integers, Sequences, FiniteSets, TLC

(***************************************************************************)
(* Bounds of the model.                                                    *)
(***************************************************************************)
MaxQty == 2          \* largest quantity of one cart line
MaxOrders == 2       \* orders the server holds for the customer today
MaxPosts == 1        \* POST /api/v1/orders requests in flight
MaxMenuReqs == 1     \* tab-triggered GET /api/v1/menu/today in flight

Items == {1, 2}
EditableItems == {1}

\* The two states of a menu item the restaurant switches between.  An amount
\* on the server and in a response is a decimal with two fraction digits,
\* written as its number of hundredths: 1010 is 10.10.
Versions == { [name |-> "Zupa", price |-> 1010], [name |-> "Zupa dnia", price |-> 1220] }
V0 == [name |-> "Zupa", price |-> 1010]
Off == [off |-> TRUE]

Categories == <<"A", "B">>
CatOf(id) == IF id = 1 THEN "A" ELSE "B"

NULL == [null |-> TRUE]

NoteValues == {"", "bez cebuli"}
PaymentMethods == {"BLIK"}
CompanyIds == {0, 7}            \* 0: the customer has no company

\* settings as served by GET /api/v1/settings; times are minutes of the day.
CutOffTime == 1
ServerSettings == [cut_off_time |-> CutOffTime, delivery_fee |-> 500, cutlery_price |-> 100]

(***************************************************************************)
(* Pure helpers of the page.                                               *)
(***************************************************************************)
EmptyCart == [items |-> <<>>, notes |-> "", payment_method |-> ""]
NoExtras == [cutlery |-> FALSE]

\* loadCart reading the lines from a property saveCart never wrote
LoadCartWrongProperty(stored) ==
    IF stored = NULL THEN EmptyCart
    ELSE [items |-> <<>>, notes |-> stored.notes, payment_method |-> stored.payment_method]

\* loadCart: a missing key reads as '{}', every missing field gets its default.
LoadCart(stored) ==
    IF stored = NULL THEN EmptyCart
    ELSE [items |-> stored.items, notes |-> stored.notes,
          payment_method |-> stored.payment_method]

LoadExtras(stored) ==
    IF stored = NULL THEN NoExtras ELSE [cutlery |-> stored.cutlery]

\* getQty: state.cart.items[id]?.qty || 0
GetQty(c, id) == IF id \in DOMAIN c.items THEN c.items[id].qty ELSE 0

Max(a, b) == IF a >= b THEN a ELSE b

(***************************************************************************)
(* The amounts of the page are JavaScript Numbers (IEEE 754 binary64).  A  *)
(* Number x is written [c, e]: its exact value is                          *)
(*     (c + e / 2^(SignificandBits + 6)) / 100,                            *)
(* c hundredths plus e error units; amounts lie in 0.01 .. 255.99.  In the *)
(* binade 2^k one unit in the last place is 100 * 2^(k + 7) error units.   *)
(***************************************************************************)
SignificandBits == 53

\* 2^n modulo 200 for 30 <= n <= 60, in 32-bit arithmetic
Pow2Mod200(n) == ((2^30 % 200) * (2^(n - 30) % 200)) % 200

Num(c, e) == [c |-> c, e |-> e]
Zero == Num(0, 0)

\* the binade of c hundredths: 2^k <= c / 100 < 2^(k + 1)
ExponentOf(c) ==
    IF c >= 12800 THEN 7
    ELSE IF c >= 6400 THEN 6
    ELSE IF c >= 3200 THEN 5
    ELSE IF c >= 1600 THEN 4
    ELSE IF c >= 800 THEN 3
    ELSE IF c >= 400 THEN 2
    ELSE IF c >= 200 THEN 1
    ELSE IF c >= 100 THEN 0
    ELSE IF c >= 50 THEN -1
    ELSE IF c >= 25 THEN -2
    ELSE IF c >= 13 THEN -3
    ELSE IF c >= 7 THEN -4
    ELSE IF c >= 4 THEN -5
    ELSE IF c >= 2 THEN -6
    ELSE -7

\* the binade of x: 2^k <= x < 2^(k + 1); a negative error moves a power of
\* two into the binade below
Exponent(x) ==
    LET k == ExponentOf(x.c)
    IN  IF x.e < 0 /\ x.c * 2^7 = 100 * 2^(k + 7) THEN k - 1 ELSE k

\* x rounded by its remainder r modulo one ulp; n2 is x modulo two ulps, which
\* tells if the significand below x is odd
RoundRem(x, ulp, n2, r) ==
    IF 2 * r < ulp \/ (2 * r = ulp /\ n2 < ulp)
    THEN Num(x.c, x.e - r)
    ELSE Num(x.c, x.e + ulp - r)

\* x rounded in the binade 2^k, where one ulp is 100 * 2^(k + 7) error units
RoundUlp(x, k, ulp) ==
    LET n2 == ((ulp \div 100)
                 * (((x.c % 200) * Pow2Mod200(SignificandBits - 1 - k)) % 200)
               + x.e) % (2 * ulp)
    IN  RoundRem(x, ulp, n2, n2 % ulp)

\* the binary64 nearest to the exact value x, ties to the even significand;
\* a whole number of quarters is a binary64 itself
RoundToDouble(x) ==
    IF x.e = 0 /\ x.c % 25 = 0 THEN x
    ELSE LET k == Exponent(x) IN RoundUlp(x, k, 100 * 2^(k + 7))

\* Number(value) of a decimal of w hundredths
ToNumber(w) == RoundToDouble(Num(w, 0))

\* x + y of two Numbers; 0 + y is y
Plus(x, y) ==
    IF x = Zero THEN y
    ELSE IF y = Zero THEN x
    ELSE RoundToDouble(Num(x.c + y.c, x.e + y.e))

\* n * x for an integer n; 1 * x is x
Times(n, x) == IF n = 1 THEN x ELSE RoundToDouble(Num(n * x.c, n * x.e))

\* x.toFixed(2) as a number of hundredths: the integer n nearest to 100 * x;
\* the error of an amount stays below half a hundredth (2^(SignificandBits + 5)
\* error units)
ToFixed2(x) == IF -(2^30) < x.e /\ x.e < 2^30 THEN x.c ELSE x.c + x.e \div 2^30

\* setQty without its delete branch: a line decremented to 0 stays in the cart
SetQtyCartKeepsZero(c, item, qty) ==
    [c EXCEPT !.items =
        [k \in (DOMAIN c.items) \cup {item.id} |->
            IF k = item.id
            THEN [id |-> item.id, name |-> item.name, price |-> ToNumber(item.price), qty |-> Max(0, qty)]
            ELSE c.items[k]]]

\* setQty that rewrites only the qty of a line it finds in the cart
SetQtyCartKeepsCaptured(c, item, qty) ==
    LET next == Max(0, qty) IN
    IF next = 0
    THEN [c EXCEPT !.items = [k \in (DOMAIN c.items) \ {item.id} |-> c.items[k]]]
    ELSE [c EXCEPT !.items =
            [k \in (DOMAIN c.items) \cup {item.id} |->
                IF k # item.id THEN c.items[k]
                ELSE IF k \in DOMAIN c.items THEN [c.items[k] EXCEPT !.qty = next]
                ELSE [id |-> item.id, name |-> item.name, price |-> ToNumber(item.price), qty |-> next]]]

\* the cart after setQty(item, qty); item is a menu item {id, name, price}
SetQtyCart(c, item, qty) ==
    LET next == Max(0, qty) IN
    IF next = 0
    THEN [c EXCEPT !.items = [k \in (DOMAIN c.items) \ {item.id} |-> c.items[k]]]
    ELSE [c EXCEPT !.items =
            [k \in (DOMAIN c.items) \cup {item.id} |->
                IF k = item.id
                THEN [id |-> item.id, name |-> item.name, price |-> ToNumber(item.price), qty |-> next]
                ELSE c.items[k]]]

\* renderMenu that never finds the item in the cart
RenderMenuNoQty(m, c) == [id \in DOMAIN m.items |-> 0]

\* renderMenu: the quantity shown on every card of state.menu.items
RenderMenu(m, c) == [id \in DOMAIN m.items |-> GetQty(c, id)]

\* renderCart: the ids of the rendered cart list (one '-' and '+' button each)
RenderCart(c) == DOMAIN c.items

HasCompany(m) == m # NULL /\ m.company_id # 0

\* formatMoney: the amount with two decimals, a comma and the currency
FormatMoney(value) ==
    LET n == ToFixed2(value)
    IN  [zl |-> n \div 100, gr |-> n % 100, currency |-> "zl"]

\* entries.reduce((sum, item) => sum + item.qty * item.price, 0) over the lines ids
RECURSIVE SumLines(_, _)
SumLines(c, ids) ==
    IF ids = {} THEN Zero
    ELSE LET id == CHOOSE k \in ids : \A j \in ids : j <= k
         IN  Plus(SumLines(c, ids \ {id}), Times(c.items[id].qty, c.items[id].price))

\* state.settings?.[field] || 0, in hundredths
SettingOrZero(s, field) == IF s = NULL THEN 0 ELSE s[field]

\* renderCart, lines 211-214: the Numbers the summary is formatted from
CartAmounts(c, x, s) ==
    LET subtotal == SumLines(c, DOMAIN c.items)
        delivery == ToNumber(SettingOrZero(s, "delivery_fee"))
        cutleryPrice == ToNumber(SettingOrZero(s, "cutlery_price"))
        extrasTotal == IF x.cutlery THEN cutleryPrice ELSE Zero
    IN  [subtotal |-> subtotal,
         delivery |-> delivery,
         extras |-> extrasTotal,
         total |-> Plus(Plus(subtotal, delivery), extrasTotal)]

\* the summary of the older renderCart, without the extras
CartSummaryNoExtras(c, x, s) ==
    LET a == CartAmounts(c, x, s)
    IN  [subtotal |-> FormatMoney(a.subtotal),
         delivery |-> FormatMoney(a.delivery),
         extras |-> FormatMoney(a.extras),
         total |-> FormatMoney(Plus(a.subtotal, a.delivery))]

\* renderCart: the texts written to the summary of the cart
CartSummary(c, x, s) ==
    LET a == CartAmounts(c, x, s)
    IN  [subtotal |-> FormatMoney(a.subtotal),
         delivery |-> FormatMoney(a.delivery),
         extras |-> FormatMoney(a.extras),
         total |-> FormatMoney(a.total)]

CheckoutDisabledNoCompany(c, m, count, checked) ==
    DOMAIN c.items = {} \/ (count >= 1 /\ ~checked)

\* updateCheckoutState: the value written to the checkout button's disabled
CheckoutDisabled(c, m, count, checked) ==
    LET needsRepeatConfirmation == count >= 1
        repeatConfirmed == (~needsRepeatConfirmation) \/ checked
    IN  DOMAIN c.items = {} \/ ~HasCompany(m) \/ ~repeatConfirmed

\* submitOrder reading the cutlery flag from the cart, where it never is
BuildPayloadCartCutlery(c, x, s, count, checked) ==
    [notes |-> c.notes,
     payment_method |-> c.payment_method,
     confirm_repeat |-> (count < 1 \/ checked),
     cutlery |-> FALSE,
     cutlery_price |-> SettingOrZero(s, "cutlery_price"),
     items |-> {[menu_item_id |-> c.items[k].id, qty |-> c.items[k].qty] : k \in DOMAIN c.items}]

\* submitOrder: the payload built from the state at the click
BuildPayload(c, x, s, count, checked) ==
    [notes |-> c.notes,
     payment_method |-> c.payment_method,
     confirm_repeat |-> (count < 1 \/ checked),
     cutlery |-> x.cutlery,
     cutlery_price |-> SettingOrZero(s, "cutlery_price"),
     items |-> {[menu_item_id |-> c.items[k].id, qty |-> c.items[k].qty] : k \in DOMAIN c.items}]


(***************************************************************************)
(* The server, as far as the page depends on it.                           *)
(***************************************************************************)
\* GET /api/v1/menu/today?category=c: the enabled items, narrowed to c
MenuPayload(srv, category) ==
    [categories |-> Categories,
     active_category |-> category,
     items |-> [id \in {i \in Items : srv[i] # Off /\ (category = "" \/ CatOf(i) = category)} |->
                  [id |-> id, name |-> srv[id].name, price |-> srv[id].price]]]

\* a validation sequence that rejects only an order without any orderable line
ValidateAnyLine(p, srv, orders, company, t) ==
    IF t >= CutOffTime THEN "CUTOFF_CLOSED"
    ELSE IF p.items = {} THEN "EMPTY_ORDER"
    ELSE IF \A it \in p.items : srv[it.menu_item_id] = Off THEN "INVALID_ITEM"
    ELSE IF company = 0 THEN "MISSING_COMPANY"
    ELSE IF Len(orders) >= 1 /\ ~p.confirm_repeat THEN "REPEAT_ORDER_NOT_CONFIRMED"
    ELSE "OK"

\* a validation sequence that closes only after the cut-off instant
ValidateClosedAfter(p, srv, orders, company, t) ==
    IF t > CutOffTime THEN "CUTOFF_CLOSED"
    ELSE IF p.items = {} THEN "EMPTY_ORDER"
    ELSE IF \E it \in p.items : srv[it.menu_item_id] = Off THEN "INVALID_ITEM"
    ELSE IF company = 0 THEN "MISSING_COMPANY"
    ELSE IF Len(orders) >= 1 /\ ~p.confirm_repeat THEN "REPEAT_ORDER_NOT_CONFIRMED"
    ELSE "OK"

\* submit_order's validation sequence; "OK" when the order is accepted
Validate(p, srv, orders, company, t) ==
    IF t >= CutOffTime THEN "CUTOFF_CLOSED"
    ELSE IF p.items = {} THEN "EMPTY_ORDER"
    ELSE IF \E it \in p.items : srv[it.menu_item_id] = Off THEN "INVALID_ITEM"
    ELSE IF company = 0 THEN "MISSING_COMPANY"
    ELSE IF Len(orders) >= 1 /\ ~p.confirm_repeat THEN "REPEAT_ORDER_NOT_CONFIRMED"
    ELSE "OK"

\* the sum of qty * unit price over a set of OrderItems
RECURSIVE SumOrderItems(_)
SumOrderItems(lines) ==
    IF lines = {} THEN 0
    ELSE LET l == CHOOSE x \in lines : TRUE
         IN  l.qty * l.price + SumOrderItems(lines \ {l})

\* the unit price of an orderable item in the server's menu
ServerPrice(srv, id) == IF srv[id] = Off THEN 0 ELSE srv[id].price

\* an Order whose lines are priced as the item was first listed
MakeOrderListPrice(p, srv) ==
    LET lines == {[menu_item_id |-> it.menu_item_id, qty |-> it.qty,
                   price |-> V0.price] : it \in p.items}
    IN  [payment_method |-> p.payment_method,
         items |-> lines,
         subtotal |-> SumOrderItems(lines)]

\* the Order persisted for an accepted payload, re-priced from the server's menu
MakeOrder(p, srv) ==
    LET lines == {[menu_item_id |-> it.menu_item_id, qty |-> it.qty,
                   price |-> ServerPrice(srv, it.menu_item_id)] : it \in p.items}
    IN  [payment_method |-> p.payment_method,
         items |-> lines,
         subtotal |-> SumOrderItems(lines)]

\* GET /api/v1/orders/me/today: the caller's orders of today, always an array
TodayOrders(orders) == [isArray |-> TRUE, elements |-> orders]

\* loadTodayOrdersInfo reading the answer as a flag
TodayCountAsFlag(todayOrders) ==
    IF todayOrders.isArray /\ Len(todayOrders.elements) > 0 THEN 1 ELSE 0

\* loadTodayOrdersInfo: Array.isArray(todayOrders) ? todayOrders.length : 0
TodayCount(todayOrders) ==
    IF todayOrders.isArray THEN Len(todayOrders.elements) ELSE 0

(***************************************************************************)
(* State.                                                                  *)
(***************************************************************************)
VARIABLES
    settings, me, menu, cart, extras, todayOrdersCount,   \* state.* of the page
    storageCart, storageExtras,                           \* localStorage
    menuDom, cartDom, summary,                            \* rendered grid, cart list, totals
    checkoutDisabled, companyBannerHidden, cutoffBannerHidden,
    repeatChecked, confirmWrapHidden, message,
    sidebarWired, checkoutWired,                          \* listeners attached
    initPc, menuReqs, posts,                              \* handlers awaiting a fetch
    srvMenu, srvOrders, srvCompany, now                   \* the server

pageVars == <<settings, me, menu, cart, extras, todayOrdersCount>>
storageVars == <<storageCart, storageExtras>>
domVars == <<menuDom, cartDom, summary, checkoutDisabled, companyBannerHidden, cutoffBannerHidden,
             repeatChecked, confirmWrapHidden, message, sidebarWired, checkoutWired>>
ctlVars == <<initPc, menuReqs, posts>>
srvVars == <<srvMenu, srvOrders, srvCompany, now>>
vars == <<pageVars, storageVars, domVars, ctlVars, srvVars>>

\* the summary of the markup, before any renderCart
NoSummary == [rendered |-> FALSE]
NoMessage == [text |-> "", isError |-> FALSE, order_id |-> 0]
ErrorMessage(text) == [text |-> text, isError |-> TRUE, order_id |-> 0]
EmptyMenu == [categories |-> <<>>, active_category |-> "", items |-> <<>>]

\* The page right after its script has run: state = {...} with loadCart() and
\* loadExtras(), nothing rendered, no listener attached, init() awaiting settings.
FreshPage(sc, sx) ==
    /\ settings = NULL
    /\ me = NULL
    /\ menu = EmptyMenu
    /\ cart = LoadCart(sc)
    /\ extras = LoadExtras(sx)
    /\ todayOrdersCount = 0
    /\ menuDom = <<>>
    /\ cartDom = {}
    /\ summary = NoSummary
    /\ checkoutDisabled = TRUE
    /\ companyBannerHidden = TRUE
    /\ cutoffBannerHidden = FALSE
    /\ repeatChecked = FALSE
    /\ confirmWrapHidden = TRUE
    /\ message = NoMessage
    /\ sidebarWired = FALSE
    /\ checkoutWired = FALSE
    /\ initPc = "settings"
    /\ menuReqs = <<>>
    /\ posts = <<>>

Init ==
    /\ storageCart = NULL
    /\ storageExtras = NULL
    /\ FreshPage(NULL, NULL)
    /\ srvMenu = [i \in Items |-> V0]
    /\ srvOrders = <<>>
    /\ srvCompany \in CompanyIds
    /\ now = 0


(***************************************************************************)
(* Building blocks of the handlers.                                        *)
(***************************************************************************)
\* saveCart serialising the lines only
SaveCartItemsOnly(c) == [items |-> c.items, notes |-> "", payment_method |-> ""]

\* JSON.stringify(state.cart) as written by saveCart
SaveCart(c) == [items |-> c.items, notes |-> c.notes, payment_method |-> c.payment_method]

\* JSON.stringify(state.extras) as written by saveExtras
SaveExtras(x) == [cutlery |-> x.cutlery]

\* updateCheckoutState run on cart c, todayOrdersCount count and the checkbox
UpdateCheckoutState(c, count, checked) ==
    /\ companyBannerHidden' = HasCompany(me)
    /\ checkoutDisabled' = CheckoutDisabled(c, me, count, checked)

\* the checkbox after renderRepeatOrderWarning: unchecked when there is no order
RepeatCheckedAfter(count) == IF count < 1 THEN FALSE ELSE repeatChecked

\* renderRepeatOrderWarning with todayOrdersCount = count, on cart c
RenderRepeatOrderWarning(c, count) ==
    /\ confirmWrapHidden' = (count < 1)
    /\ repeatChecked' = RepeatCheckedAfter(count)
    /\ UpdateCheckoutState(c, count, RepeatCheckedAfter(count))

\* loadMenu after its fetch: state.menu = payload, default tab, renderTabs, renderMenu
MenuLoaded(payload) ==
    IF payload.active_category = "" /\ Len(payload.categories) > 0
    THEN [payload EXCEPT !.active_category = payload.categories[1]]
    ELSE payload

\* setQty(item, qty): the cart, saveCart, renderMenu, renderCart
SetQty(item, qty) ==
    /\ cart' = SetQtyCart(cart, item, qty)
    /\ storageCart' = SaveCart(cart')
    /\ menuDom' = RenderMenu(menu, cart')
    /\ cartDom' = RenderCart(cart')
    /\ summary' = CartSummary(cart', extras, settings)
    /\ UpdateCheckoutState(cart', todayOrdersCount, repeatChecked)
    /\ UNCHANGED <<settings, me, menu, extras, todayOrdersCount, storageExtras,
                   cutoffBannerHidden, repeatChecked, confirmWrapHidden, message,
                   sidebarWired, checkoutWired, ctlVars, srvVars>>

(***************************************************************************)
(* init(): settings, companies, me, wireSidebarInputs, loadMenu,           *)
(* loadTodayOrdersInfo, renderCart, the two listeners.                     *)
(***************************************************************************)
InitSettings ==
    /\ initPc = "settings"
    /\ settings' = ServerSettings
    /\ initPc' = "companies"
    /\ UNCHANGED <<me, menu, cart, extras, todayOrdersCount, storageVars, domVars,
                   menuReqs, posts, srvVars>>

InitCompanies ==
    /\ initPc = "companies"
    /\ initPc' = "me"
    /\ UNCHANGED <<pageVars, storageVars, domVars, menuReqs, posts, srvVars>>

InitMe ==
    /\ initPc = "me"
    /\ me' = [company_id |-> srvCompany]
    /\ cutoffBannerHidden' = TRUE
    /\ sidebarWired' = TRUE
    /\ initPc' = "menu"
    /\ UNCHANGED <<settings, menu, cart, extras, todayOrdersCount, storageVars,
                   menuDom, cartDom, summary, checkoutDisabled, companyBannerHidden,
                   repeatChecked, confirmWrapHidden, message, checkoutWired,
                   menuReqs, posts, srvVars>>

InitMenu ==
    /\ initPc = "menu"
    /\ menu' = MenuLoaded(MenuPayload(srvMenu, ""))
    /\ menuDom' = RenderMenu(menu', cart)
    /\ initPc' = "today"
    /\ UNCHANGED <<settings, me, cart, extras, todayOrdersCount, storageVars,
                   cartDom, summary, checkoutDisabled, companyBannerHidden, cutoffBannerHidden,
                   repeatChecked, confirmWrapHidden, message, sidebarWired, checkoutWired,
                   menuReqs, posts, srvVars>>

InitToday ==
    /\ initPc = "today"
    /\ todayOrdersCount' = TodayCount(TodayOrders(srvOrders))
    /\ RenderRepeatOrderWarning(cart, todayOrdersCount')
    /\ cartDom' = RenderCart(cart)
    /\ summary' = CartSummary(cart, extras, settings)
    /\ checkoutWired' = TRUE
    /\ initPc' = "done"
    /\ UNCHANGED <<settings, me, menu, cart, extras, storageVars, menuDom,
                   cutoffBannerHidden, message, sidebarWired,
                   menuReqs, posts, srvVars>>

\* any of init's five fetches fails: the DOMContentLoaded handler's catch
InitFail ==
    /\ initPc \in {"settings", "companies", "me", "menu", "today"}
    /\ message' = ErrorMessage("Nie udalo sie zaladowac danych.")
    /\ initPc' = "failed"
    /\ UNCHANGED <<pageVars, storageVars, menuDom, cartDom, summary, checkoutDisabled,
                   companyBannerHidden, cutoffBannerHidden, repeatChecked,
                   confirmWrapHidden, sidebarWired, checkoutWired,
                   menuReqs, posts, srvVars>>

(***************************************************************************)
(* The cart controls.                                                      *)
(***************************************************************************)
\* 'Dodaj' on a menu card
MenuAdd(id) ==
    /\ id \in DOMAIN menuDom
    /\ GetQty(cart, id) < MaxQty
    /\ SetQty(menu.items[id], GetQty(cart, id) + 1)

\* '+' of a menu card's stepper, shown when the card was rendered with qty > 0
MenuInc(id) ==
    /\ id \in DOMAIN menuDom
    /\ menuDom[id] > 0
    /\ GetQty(cart, id) < MaxQty
    /\ SetQty(menu.items[id], GetQty(cart, id) + 1)

\* '-' of a menu card's stepper
MenuDec(id) ==
    /\ id \in DOMAIN menuDom
    /\ menuDom[id] > 0
    /\ SetQty(menu.items[id], GetQty(cart, id) - 1)

\* what a cart-list button does: find the item in state.menu.items, else nothing
CartButton(id, delta) ==
    IF id \in DOMAIN menu.items
    THEN SetQty(menu.items[id], GetQty(cart, id) + delta)
    ELSE UNCHANGED vars

\* the cart a click on a cart-list button of line id leaves behind
CartButtonCart(id, delta) ==
    IF id \in DOMAIN menu.items
    THEN SetQtyCart(cart, menu.items[id], GetQty(cart, id) + delta)
    ELSE cart

\* '-' of a cart-list line
CartDec(id) ==
    /\ id \in cartDom
    /\ CartButton(id, -1)

\* '+' of a cart-list line
CartInc(id) ==
    /\ id \in cartDom
    /\ GetQty(cart, id) < MaxQty
    /\ CartButton(id, 1)

(***************************************************************************)
(* The sidebar inputs wired by wireSidebarInputs.                          *)
(***************************************************************************)
EditNotes(text) ==
    /\ sidebarWired
    /\ text # cart.notes
    /\ cart' = [cart EXCEPT !.notes = text]
    /\ storageCart' = SaveCart(cart')
    /\ UNCHANGED <<settings, me, menu, extras, todayOrdersCount, storageExtras,
                   domVars, ctlVars, srvVars>>

SelectPayment(pm) ==
    /\ sidebarWired
    /\ cart' = [cart EXCEPT !.payment_method = pm]
    /\ storageCart' = SaveCart(cart')
    /\ UNCHANGED <<settings, me, menu, extras, todayOrdersCount, storageExtras,
                   domVars, ctlVars, srvVars>>

ToggleCutlery ==
    /\ sidebarWired
    /\ extras' = [extras EXCEPT !.cutlery = ~extras.cutlery]
    /\ storageExtras' = SaveExtras(extras')
    /\ cartDom' = RenderCart(cart)
    /\ summary' = CartSummary(cart, extras', settings)
    /\ UpdateCheckoutState(cart, todayOrdersCount, repeatChecked)
    /\ UNCHANGED <<settings, me, menu, cart, todayOrdersCount, storageCart,
                   menuDom, cutoffBannerHidden, repeatChecked, confirmWrapHidden,
                   message, sidebarWired, checkoutWired, ctlVars, srvVars>>

\* the repeat-order confirmation checkbox; its change listener is attached by init
ToggleRepeatConfirm ==
    /\ ~confirmWrapHidden
    /\ repeatChecked' = ~repeatChecked
    /\ IF checkoutWired
       THEN UpdateCheckoutState(cart, todayOrdersCount, repeatChecked')
       ELSE UNCHANGED <<checkoutDisabled, companyBannerHidden>>
    /\ UNCHANGED <<pageVars, storageVars, menuDom, cartDom, summary, cutoffBannerHidden,
                   confirmWrapHidden, message, sidebarWired, checkoutWired,
                   ctlVars, srvVars>>


(***************************************************************************)
(* Category tabs: loadMenu(category) with its own catch.                   *)
(***************************************************************************)
RemoveAt(q, i) == [j \in 1..(Len(q) - 1) |-> IF j < i THEN q[j] ELSE q[j + 1]]

\* a click on a rendered tab sends GET /api/v1/menu/today?category=...; at
\* most limit requests of loadMenu are awaited at a time.  menuReqs holds the
\* requests in the order of their clicks; superseded records that the
\* response to a later click has been applied already.
TabClick(category, limit) ==
    /\ \E k \in 1..Len(menu.categories) : menu.categories[k] = category
    /\ Len(menuReqs) < limit
    /\ menuReqs' = Append(menuReqs, [category |-> category, superseded |-> FALSE])
    /\ UNCHANGED <<pageVars, storageVars, domVars, initPc, posts, srvVars>>

ClickTab(category) == TabClick(category, MaxMenuReqs)

\* the requests q once the response to q[i] has been applied
Supersede(q, i) ==
    [j \in 1..Len(q) |-> IF j < i THEN [q[j] EXCEPT !.superseded = TRUE] ELSE q[j]]

TabMenuLoaded(i) ==
    /\ i \in 1..Len(menuReqs)
    /\ menu' = MenuLoaded(MenuPayload(srvMenu, menuReqs[i].category))
    /\ menuDom' = RenderMenu(menu', cart)
    /\ menuReqs' = RemoveAt(Supersede(menuReqs, i), i)
    /\ UNCHANGED <<settings, me, cart, extras, todayOrdersCount, storageVars,
                   cartDom, summary, checkoutDisabled, companyBannerHidden, cutoffBannerHidden,
                   repeatChecked, confirmWrapHidden, message, sidebarWired, checkoutWired,
                   initPc, posts, srvVars>>

TabMenuFail(i) ==
    /\ i \in 1..Len(menuReqs)
    /\ message' = ErrorMessage("Nie udalo sie zaladowac menu.")
    /\ menuReqs' = RemoveAt(menuReqs, i)
    /\ UNCHANGED <<pageVars, storageVars, menuDom, cartDom, summary, checkoutDisabled,
                   companyBannerHidden, cutoffBannerHidden, repeatChecked,
                   confirmWrapHidden, sidebarWired, checkoutWired,
                   initPc, posts, srvVars>>

(***************************************************************************)
(* submitOrder.  A request of posts is in phase "post" while POST          *)
(* /api/v1/orders is awaited and in phase "today" while the follow-up      *)
(* loadTodayOrdersInfo awaits GET /api/v1/orders/me/today.  The server     *)
(* handles a POST in the step that delivers its response.                  *)
(***************************************************************************)
NoPayload == [sent |-> TRUE]

\* the click handler up to its await: payload, payment check, fetch; at most
\* limit requests of submitOrder are awaited at a time
Checkout(limit) ==
    /\ checkoutWired
    /\ ~checkoutDisabled
    /\ LET payload == BuildPayload(cart, extras, settings, todayOrdersCount, repeatChecked) IN
       IF payload.payment_method = ""
       THEN /\ message' = ErrorMessage("Wybierz metode platnosci.")
            /\ UNCHANGED posts
       ELSE /\ Len(posts) < limit
            /\ posts' = Append(posts, [phase |-> "post", payload |-> payload])
            /\ UNCHANGED message
    /\ UNCHANGED <<pageVars, storageVars, menuDom, cartDom, summary, checkoutDisabled,
                   companyBannerHidden, cutoffBannerHidden, repeatChecked,
                   confirmWrapHidden, sidebarWired, checkoutWired,
                   initPc, menuReqs, srvVars>>

ClickCheckout == Checkout(MaxPosts)

\* the server's verdict on the POST in flight at position i
Verdict(i) == Validate(posts[i].payload, srvMenu, srvOrders, srvCompany, now)

\* 201: the order is persisted; setMessage, clearCart, then
\* loadTodayOrdersInfo's fetch
PostAccepted(i) ==
    /\ i \in 1..Len(posts)
    /\ posts[i].phase = "post"
    /\ Verdict(i) = "OK"
    /\ Len(srvOrders) < MaxOrders
    /\ srvOrders' = Append(srvOrders, MakeOrder(posts[i].payload, srvMenu))
    /\ message' = [text |-> "Zamowienie przyjete", isError |-> FALSE,
                   order_id |-> Len(srvOrders')]
    /\ storageCart' = NULL
    /\ cart' = EmptyCart
    /\ extras' = NoExtras
    /\ storageExtras' = SaveExtras(extras')
    /\ posts' = [posts EXCEPT ![i] = [phase |-> "today", payload |-> NoPayload]]
    /\ UNCHANGED <<settings, me, menu, todayOrdersCount, menuDom, cartDom, summary,
                   checkoutDisabled, companyBannerHidden, cutoffBannerHidden,
                   repeatChecked, confirmWrapHidden, sidebarWired, checkoutWired,
                   initPc, menuReqs, srvMenu, srvCompany, now>>

\* a catch of submitOrder that calls clearCart
PostRejectedClearsCart(i) ==
    /\ i \in 1..Len(posts)
    /\ posts[i].phase = "post"
    /\ Verdict(i) # "OK"
    /\ message' = ErrorMessage(Verdict(i))
    /\ storageCart' = NULL
    /\ cart' = EmptyCart
    /\ extras' = NoExtras
    /\ storageExtras' = SaveExtras(extras')
    /\ posts' = RemoveAt(posts, i)
    /\ UNCHANGED <<settings, me, menu, todayOrdersCount, menuDom, cartDom, summary, checkoutDisabled,
                   companyBannerHidden, cutoffBannerHidden, repeatChecked,
                   confirmWrapHidden, sidebarWired, checkoutWired,
                   initPc, menuReqs, srvVars>>

\* a catch of submitOrder that shows the error and sends the request again
PostRejectedRetries(i) ==
    /\ i \in 1..Len(posts)
    /\ posts[i].phase = "post"
    /\ Verdict(i) # "OK"
    /\ message' = ErrorMessage(Verdict(i))
    /\ UNCHANGED <<pageVars, storageVars, menuDom, cartDom, summary, checkoutDisabled,
                   companyBannerHidden, cutoffBannerHidden, repeatChecked,
                   confirmWrapHidden, sidebarWired, checkoutWired,
                   ctlVars, srvVars>>

\* 4xx with a detail: nothing is persisted; the catch of submitOrder
PostRejected(i) ==
    /\ i \in 1..Len(posts)
    /\ posts[i].phase = "post"
    /\ Verdict(i) # "OK"
    /\ message' = ErrorMessage(Verdict(i))
    /\ posts' = RemoveAt(posts, i)
    /\ UNCHANGED <<pageVars, storageVars, menuDom, cartDom, summary, checkoutDisabled,
                   companyBannerHidden, cutoffBannerHidden, repeatChecked,
                   confirmWrapHidden, sidebarWired, checkoutWired,
                   initPc, menuReqs, srvVars>>

\* the POST never reaches the server, or the GET after an accepted order
\* fails: fetch rejects without a detail and the catch shows the fallback text
SubmitFetchFail(i) ==
    /\ i \in 1..Len(posts)
    /\ message' = ErrorMessage("Nie udalo sie zlozyc zamowienia.")
    /\ posts' = RemoveAt(posts, i)
    /\ UNCHANGED <<pageVars, storageVars, menuDom, cartDom, summary, checkoutDisabled,
                   companyBannerHidden, cutoffBannerHidden, repeatChecked,
                   confirmWrapHidden, sidebarWired, checkoutWired,
                   initPc, menuReqs, srvVars>>

\* loadTodayOrdersInfo answers after an accepted order: count, warning,
\* renderMenu, renderCart, wireSidebarInputs
SubmitTodayLoaded(i) ==
    /\ i \in 1..Len(posts)
    /\ posts[i].phase = "today"
    /\ todayOrdersCount' = TodayCount(TodayOrders(srvOrders))
    /\ RenderRepeatOrderWarning(cart, todayOrdersCount')
    /\ menuDom' = RenderMenu(menu, cart)
    /\ cartDom' = RenderCart(cart)
    /\ summary' = CartSummary(cart, extras, settings)
    /\ sidebarWired' = TRUE
    /\ posts' = RemoveAt(posts, i)
    /\ UNCHANGED <<settings, me, menu, cart, extras, storageVars,
                   cutoffBannerHidden, message, checkoutWired,
                   initPc, menuReqs, srvVars>>

(***************************************************************************)
(* The environment: page reload, the restaurant's menu edits, the clock.   *)
(***************************************************************************)
\* the browser reloads the page: the script runs again on the stored cart
Reload ==
    /\ settings' = NULL
    /\ me' = NULL
    /\ menu' = EmptyMenu
    /\ cart' = LoadCart(storageCart)
    /\ extras' = LoadExtras(storageExtras)
    /\ todayOrdersCount' = 0
    /\ menuDom' = <<>>
    /\ cartDom' = {}
    /\ summary' = NoSummary
    /\ checkoutDisabled' = TRUE
    /\ companyBannerHidden' = TRUE
    /\ cutoffBannerHidden' = FALSE
    /\ repeatChecked' = FALSE
    /\ confirmWrapHidden' = TRUE
    /\ message' = NoMessage
    /\ sidebarWired' = FALSE
    /\ checkoutWired' = FALSE
    /\ initPc' = "settings"
    /\ menuReqs' = <<>>
    /\ posts' = <<>>
    /\ UNCHANGED <<storageVars, srvVars>>

\* the restaurant changes an item's name and price, or takes it off today's menu
EditMenu(id, v) ==
    /\ id \in EditableItems
    /\ v # srvMenu[id]
    /\ srvMenu' = [srvMenu EXCEPT ![id] = v]
    /\ UNCHANGED <<pageVars, storageVars, domVars, ctlVars, srvOrders, srvCompany, now>>

\* the server's clock reaches the cut-off
Tick ==
    /\ now < CutOffTime
    /\ now' = now + 1
    /\ UNCHANGED <<pageVars, storageVars, domVars, ctlVars, srvMenu, srvOrders, srvCompany>>

InitStep ==
    InitSettings \/ InitCompanies \/ InitMe \/ InitMenu \/ InitToday \/ InitFail

CartStep(ids) ==
    \E id \in ids : MenuAdd(id) \/ MenuInc(id) \/ MenuDec(id) \/ CartDec(id) \/ CartInc(id)

TabStep(cats) ==
    \/ \E c \in cats : ClickTab(c)
    \/ \E i \in 1..MaxMenuReqs : TabMenuLoaded(i) \/ TabMenuFail(i)

SubmitStep ==
    \/ ClickCheckout
    \/ \E i \in 1..MaxPosts :
          PostAccepted(i) \/ PostRejected(i) \/ SubmitFetchFail(i) \/ SubmitTodayLoaded(i)

\* The checkout: one dish, the payment method, the repeat-order confirmation,
\* submissions against the server's clock, reloads.
Next ==
    \/ InitStep
    \/ CartStep({1})
    \/ \E pm \in PaymentMethods : SelectPayment(pm)
    \/ ToggleRepeatConfirm
    \/ SubmitStep
    \/ Reload
    \/ Tick

Spec == Init /\ [][Next]_vars

\* a customer with a company
InitCompany ==
    /\ Init
    /\ srvCompany = 7

\* What empties the cart: the checkout with the notes field, without the
\* repeat-order confirmation.
NextFrame ==
    \/ InitStep
    \/ CartStep({1})
    \/ \E text \in NoteValues : EditNotes(text)
    \/ \E pm \in PaymentMethods : SelectPayment(pm)
    \/ SubmitStep
    \/ Reload
    \/ Tick

SpecFrame == InitCompany /\ [][NextFrame]_vars

\* What a failed request leaves behind: the checkout with the cutlery extra.
NextError ==
    \/ InitStep
    \/ CartStep({1})
    \/ \E pm \in PaymentMethods : SelectPayment(pm)
    \/ ToggleCutlery
    \/ SubmitStep
    \/ Reload
    \/ Tick

SpecError == InitCompany /\ [][NextError]_vars

\* The cart against a changing menu: both dishes, both tabs, the restaurant's
\* edits; nothing is submitted.
NextCart ==
    \/ InitStep
    \/ CartStep(Items)
    \/ TabStep({"A", "B"})
    \/ Reload
    \/ \E id \in Items, v \in Versions \cup {Off} : EditMenu(id, v)

SpecCart == InitCompany /\ [][NextCart]_vars

\* The cart lines alone: both dishes, the tabs and reloads.
NextLines ==
    \/ InitStep
    \/ CartStep(Items)
    \/ TabStep({"A", "B"})
    \/ Reload

SpecLines == InitCompany /\ [][NextLines]_vars

\* Menu fetches over a full cart: both dishes, notes, the cutlery extra, the
\* tabs and reloads, under a menu the restaurant leaves alone.
NextFetch ==
    \/ InitStep
    \/ CartStep(Items)
    \/ \E text \in NoteValues : EditNotes(text)
    \/ ToggleCutlery
    \/ TabStep({"A", "B"})
    \/ Reload

SpecFetch == InitCompany /\ [][NextFetch]_vars

\* The amounts of the summary: both dishes, the cutlery extra and prices the
\* restaurant changes between two loads of the page.
NextMoney ==
    \/ InitStep
    \/ CartStep(Items)
    \/ ToggleCutlery
    \/ Reload
    \/ \E id \in Items, v \in Versions : EditMenu(id, v)

SpecMoney == InitCompany /\ [][NextMoney]_vars


\* The stored copies: every mutation of the cart and of the extras, accepted
\* orders and reloads.
NextSync ==
    \/ InitStep
    \/ CartStep({1})
    \/ \E text \in NoteValues : EditNotes(text)
    \/ \E pm \in PaymentMethods : SelectPayment(pm)
    \/ ToggleCutlery
    \/ ClickCheckout
    \/ \E i \in 1..MaxPosts : PostAccepted(i) \/ SubmitTodayLoaded(i)
    \/ Reload

SpecSync == InitCompany /\ [][NextSync]_vars

\* The double click: a second click on checkout before the first POST is
\* answered.
RacePosts == MaxPosts + 1

NextRace ==
    \/ InitStep
    \/ MenuAdd(1)
    \/ \E pm \in PaymentMethods : SelectPayment(pm)
    \/ Checkout(RacePosts)
    \/ \E i \in 1..RacePosts :
          PostAccepted(i) \/ PostRejected(i) \/ SubmitFetchFail(i) \/ SubmitTodayLoaded(i)

SpecRace == InitCompany /\ [][NextRace]_vars

\* Two tabs clicked in succession: two requests of loadMenu are awaited and
\* answered in either order.
RaceMenuReqs == MaxMenuReqs + 1

NextTabs ==
    \/ InitStep
    \/ CartStep({1})
    \/ \E c \in {"A", "B"} : TabClick(c, RaceMenuReqs)
    \/ \E i \in 1..RaceMenuReqs : TabMenuLoaded(i) \/ TabMenuFail(i)

SpecTabs == InitCompany /\ [][NextTabs]_vars

\* The order the server keeps: both dishes in the cart (the second one at most
\* once), the restaurant's edits between the menu fetch and the submission,
\* the server's clock.
NextPrice ==
    \/ InitStep
    \/ MenuAdd(1)
    \/ GetQty(cart, 2) = 0 /\ MenuAdd(2)
    \/ \E pm \in PaymentMethods : SelectPayment(pm)
    \/ ClickCheckout
    \/ \E i \in 1..MaxPosts : PostAccepted(i) \/ PostRejected(i) \/ SubmitTodayLoaded(i)
    \/ \E id \in Items, v \in Versions \cup {Off} : EditMenu(id, v)
    \/ Tick

SpecPrice == InitCompany /\ [][NextPrice]_vars

(***************************************************************************)
(* Claims.                                                                 *)
(***************************************************************************)
\* the repeat-order condition of updateCheckoutState on the current state
RepeatConfirmed == todayOrdersCount >= 1 => repeatChecked

\* a step that sends a POST /api/v1/orders
PostSent == Len(posts') = Len(posts) + 1

C2_ConfirmRepeatIsExplicit ==
    [][(PostSent /\ Len(srvOrders) >= 1 /\ posts'[Len(posts')].payload.confirm_repeat)
          => repeatChecked]_vars

\* C3: while a cart line's item is missing from the fetched menu snapshot,
\* checkout is blocked.
C3_MissingItemBlocksCheckout ==
    (/\ Len(menu.categories) > 0
     /\ \E id \in DOMAIN cart.items : id \notin DOMAIN menu.items)
        => checkoutDisabled

\* C4: once the server time has reached the cut-off the page sends no POST.
C4_NoPostAfterCutoff ==
    [][PostSent => now < settings.cut_off_time]_vars

\* the cart, in memory or as stored, goes from non-empty to empty
CartEmptied ==
    \/ cart # EmptyCart /\ cart' = EmptyCart
    \/ LoadCart(storageCart) # EmptyCart /\ LoadCart(storageCart') = EmptyCart

\* the user takes the last content out of the cart by hand
UserEmptiesCart ==
    \/ \E id \in Items : MenuDec(id) \/ CartDec(id)
    \/ EditNotes("")

\* C5 (as claimed): the cart goes from non-empty to empty only in the step
\* that handles a 2xx response to POST /api/v1/orders.
C5_ClearedOnlyByAccepted ==
    [][CartEmptied => \E i \in 1..MaxPosts : PostAccepted(i)]_vars

\* C5 (amended): the cart goes from non-empty to empty only in the step that
\* handles a 2xx response to the POST, or by the user's own edit ('-' on the
\* last line, erasing the notes); no load, rejection, failure or reload does it.
C5_ClearedByAcceptedOrUser ==
    [][CartEmptied => (\E i \in 1..MaxPosts : PostAccepted(i)) \/ UserEmptiesCart]_vars

\* C5 witness: an accepted order has emptied a cart
C5_Witness ==
    /\ message.text = "Zamowienie przyjete"
    /\ cart = EmptyCart /\ storageCart = NULL
    /\ Len(srvOrders) >= 1

\* a step in which a request of the page fails or is rejected
RequestFails ==
    \/ InitFail
    \/ \E i \in 1..MaxPosts : PostRejected(i) \/ SubmitFetchFail(i)

\* C6: a failed or rejected request leaves the cart and the extras, in memory
\* and in localStorage, as they were, and an error message is displayed.
C6_FailureKeepsCart ==
    [][RequestFails =>
          /\ cart' = cart /\ extras' = extras
          /\ storageCart' = storageCart /\ storageExtras' = storageExtras
          /\ message'.isError /\ message'.text # ""]_vars

\* C6 witness: a rejected submission, its cart and extras still there
C6_Witness ==
    /\ message = ErrorMessage("CUTOFF_CLOSED")
    /\ DOMAIN cart.items # {} /\ storageCart # NULL
    /\ extras.cutlery

\* C7: every cart line has an integer qty >= 1; add on an absent item makes a
\* line of qty 1, '+' raises qty by one, '-' lowers it by one and removes the
\* line at qty 1; no other line changes.
C7_CartLineStateMachine ==
    /\ \A id \in DOMAIN cart.items : cart.items[id].qty \in Nat \ {0}
    /\ [][/\ \A id \in DOMAIN cart'.items : cart'.items[id].qty \in Nat \ {0}
          /\ \A id \in Items :
               LET q == GetQty(cart, id)
                   found == id \in DOMAIN menu.items /\ menu' = menu
                   up == found /\ (MenuAdd(id) \/ MenuInc(id) \/ CartInc(id))
                   down == found /\ (MenuDec(id) \/ CartDec(id))
               IN  /\ up => GetQty(cart', id) = q + 1
                   /\ (down /\ q >= 1) => GetQty(cart', id) = q - 1
                   /\ (down /\ q = 1) => id \notin DOMAIN cart'.items
                   /\ (up \/ down) => \A o \in Items \ {id} :
                         /\ (o \in DOMAIN cart'.items) = (o \in DOMAIN cart.items)
                         /\ o \in DOMAIN cart.items => cart'.items[o] = cart.items[o]]_vars

\* C7 witness: a line that was added and incremented
C7_Witness == \E id \in DOMAIN cart.items : cart.items[id].qty = 2

\* C8: for every line of the cart the cart-list '-' lowers its qty by one
\* and the '+' raises it by one, whatever menu is loaded.
C8_CartListControlsWork ==
    \A id \in cartDom \cap DOMAIN cart.items :
        /\ GetQty(CartButtonCart(id, -1), id) = GetQty(cart, id) - 1
        /\ GetQty(CartButtonCart(id, 1), id) = GetQty(cart, id) + 1

\* C9 (as claimed): the captured name and price of a line never change while
\* the line stays in the cart.
C9_CapturedAtCreation ==
    [][\A id \in DOMAIN cart.items \cap DOMAIN cart'.items :
          /\ cart'.items[id].name = cart.items[id].name
          /\ cart'.items[id].price = cart.items[id].price]_vars

\* C9 (amended): the captured name and price of a line are those of the menu
\* snapshot at the line's latest add, increment or decrement; a step that
\* leaves the line's qty alone, a menu fetch among them, leaves them alone.
C9_CapturedAtLastChange ==
    [][\A id \in DOMAIN cart'.items :
          IF id \in DOMAIN cart.items /\ cart'.items[id].qty = cart.items[id].qty
          THEN cart'.items[id] = cart.items[id]
          ELSE /\ id \in DOMAIN menu.items
               /\ cart'.items[id].name = menu.items[id].name
               /\ cart'.items[id].price = ToNumber(menu.items[id].price)]_vars

\* C9 witness: a line keeps its captured price under a snapshot that carries
\* another one
C9_Witness ==
    /\ 1 \in DOMAIN cart.items /\ 1 \in DOMAIN menu.items
    /\ cart.items[1].price # ToNumber(menu.items[1].price)

\* a step of loadMenu after its fetch, answered or failed
MenuFetched ==
    \/ InitMenu
    \/ InitFail /\ initPc = "menu"
    \/ \E i \in 1..MaxMenuReqs : TabMenuLoaded(i) \/ TabMenuFail(i)

\* C10: a menu fetch changes neither the cart nor the extras nor their stored
\* copies, and the quantity it shows for every menu item is the item's cart qty.
C10_MenuFetchKeepsCart ==
    [][MenuFetched =>
          /\ cart' = cart /\ extras' = extras
          /\ storageCart' = storageCart /\ storageExtras' = storageExtras
          /\ DOMAIN menuDom' = DOMAIN menu'.items
          /\ \A id \in DOMAIN menu'.items : menuDom'[id] = GetQty(cart', id)]_vars

\* C10 witness: the tab of the second dish is loaded and shows its cart qty
C10_Witness ==
    /\ menu.active_category = "B"
    /\ DOMAIN menu.items = {2}
    /\ GetQty(cart, 2) = 2 /\ menuDom[2] = 2
    /\ cart.notes # "" /\ extras.cutlery

\* C11: after every completed handler the stored copies are in sync with the
\* in-memory state: loadCart and loadExtras on localStorage give the cart and
\* the extras, so a reload restores exactly them.
C11_StorageInSync ==
    /\ LoadCart(storageCart) = cart
    /\ LoadExtras(storageExtras) = extras

\* C11 witness: a page reloaded onto a cart with a line, notes, a payment
\* method and the cutlery extra
C11_Witness ==
    /\ initPc = "settings"
    /\ GetQty(cart, 1) = 2 /\ cart.notes # "" /\ cart.payment_method # ""
    /\ extras.cutlery

\* a step that runs renderCart: setQty, the cutlery checkbox, the end of init,
\* the end of an accepted submission
CartRendered ==
    \/ InitToday
    \/ ToggleCutlery
    \/ \E i \in 1..MaxPosts : SubmitTodayLoaded(i)
    \/ /\ menu' = menu
       /\ \E id \in DOMAIN menu.items :
             MenuAdd(id) \/ MenuInc(id) \/ MenuDec(id) \/ CartDec(id) \/ CartInc(id)

\* the decimal amount of n hundredths as the summary shows it
Shown(n) == [zl |-> n \div 100, gr |-> n % 100, currency |-> "zl"]

\* the exact sum of qty * captured price over the lines ids, in hundredths
RECURSIVE ExactLines(_, _)
ExactLines(c, ids) ==
    IF ids = {} THEN 0
    ELSE LET id == CHOOSE k \in ids : TRUE
         IN  c.items[id].qty * c.items[id].price.c + ExactLines(c, ids \ {id})

\* C12: whenever renderCart runs, the subtotal it shows is the sum of
\* qty * captured price over the cart lines, the extras fee is the cutlery
\* price if cutlery is selected and 0 otherwise, and the total is subtotal +
\* delivery fee + extras fee (fee and price read as 0 without settings).
C12_Totals ==
    [][CartRendered =>
          LET sub == ExactLines(cart', DOMAIN cart'.items)
              fee == IF extras'.cutlery THEN SettingOrZero(settings', "cutlery_price") ELSE 0
          IN  /\ summary'.subtotal = Shown(sub)
              /\ summary'.extras = Shown(fee)
              /\ summary'.total =
                    Shown(sub + SettingOrZero(settings', "delivery_fee") + fee)]_vars

\* C12 witness: two lines of different captured prices and the cutlery extra,
\* 12.20 + 10.10 + 5.00 + 1.00 on screen
C12_Witness ==
    /\ DOMAIN cart.items = {1, 2}
    /\ cart.items[1].price = ToNumber(1220) /\ cart.items[2].price = ToNumber(1010)
    /\ cart.items[1].qty = 1 /\ cart.items[2].qty = 1
    /\ extras.cutlery
    /\ summary # NoSummary
    /\ summary.subtotal = Shown(2230)
    /\ summary.total = Shown(2830)

\* cart c with the captured name and price of every line replaced by f's
Recaptured(c, f) ==
    [c EXCEPT !.items = [k \in DOMAIN c.items |->
        [c.items[k] EXCEPT !.name = f[k].name, !.price = ToNumber(f[k].price)]]]

\* C13: the payload of every POST has exactly one entry {menu_item_id, qty}
\* per cart line, with the line's id and qty and nothing else, and the notes,
\* payment method and cutlery of the click; carts that differ only in captured
\* names and prices give the same items.
C13_PayloadIsCart ==
    [][PostSent =>
          LET p == posts'[Len(posts')].payload IN
          /\ p.items = {[menu_item_id |-> k, qty |-> cart.items[k].qty] : k \in DOMAIN cart.items}
          /\ Cardinality(p.items) = Cardinality(DOMAIN cart.items)
          /\ p.notes = cart.notes
          /\ p.payment_method = cart.payment_method
          /\ p.cutlery = extras.cutlery
          /\ \A f \in [DOMAIN cart.items -> Versions] :
                BuildPayload(Recaptured(cart, f), extras, settings,
                             todayOrdersCount, repeatChecked).items = p.items]_vars

\* C13 witness: a POST in flight for two portions with notes and cutlery
C13_Witness ==
    \E i \in 1..Len(posts) :
        /\ posts[i].phase = "post"
        /\ posts[i].payload.items = {[menu_item_id |-> 1, qty |-> 2]}
        /\ posts[i].payload.notes # ""
        /\ posts[i].payload.cutlery

\* the POST /api/v1/orders requests awaiting their response
PostsInFlight == {i \in 1..Len(posts) : posts[i].phase = "post"}

\* C14: a POST is sent only by a click on checkout, one per click; a POST
\* that fails or is rejected ends with an error message on screen and is not
\* sent again.
C14_NoAutomaticRetry ==
    [][/\ Len(posts') > Len(posts) => (ClickCheckout /\ Len(posts') = Len(posts) + 1)
       /\ Cardinality(PostsInFlight') > Cardinality(PostsInFlight) => ClickCheckout
       /\ \A i \in PostsInFlight :
             (PostRejected(i) \/ SubmitFetchFail(i)) =>
                /\ message'.isError /\ message'.text # ""
                /\ Len(posts') = Len(posts) - 1
                /\ Cardinality(PostsInFlight') = Cardinality(PostsInFlight) - 1]_vars

\* C14 witness: a POST has failed, its error is shown, the cart is still
\* there and nothing is in flight
C14_Witness ==
    /\ message = ErrorMessage("Nie udalo sie zlozyc zamowienia.")
    /\ posts = <<>>
    /\ DOMAIN cart.items # {} /\ cart.payment_method # ""
    /\ srvOrders = <<>>

\* C15: while the customer has no company, no step changes the lines of the
\* cart and the checkout button stays disabled.
C15_NoCompanyBlocksCart ==
    [][(me # NULL /\ ~HasCompany(me)) =>
          /\ cart'.items = cart.items
          /\ checkoutDisabled']_vars

\* C16: a POST that reaches the server at or after the cut-off instant is
\* answered CUTOFF_CLOSED and creates no order, whenever the page was loaded
\* and the cart built; before the cut-off instant no POST is answered
\* CUTOFF_CLOSED.
C16_CutoffBoundary ==
    /\ [](\A i \in PostsInFlight : (Verdict(i) = "CUTOFF_CLOSED") <=> (now >= CutOffTime))
    /\ [][\A i \in PostsInFlight :
             /\ PostAccepted(i) => now < CutOffTime
             /\ (PostRejected(i) /\ now >= CutOffTime) =>
                   /\ message' = ErrorMessage("CUTOFF_CLOSED")
                   /\ srvOrders' = srvOrders]_vars

\* C16 witness: a cart built before the cut-off, submitted, rejected at the
\* cut-off instant; no order exists
C16_Witness ==
    /\ now = CutOffTime
    /\ message = ErrorMessage("CUTOFF_CLOSED")
    /\ GetQty(cart, 1) >= 1
    /\ srvOrders = <<>>
    /\ posts = <<>>

\* C17: of two POSTs in flight while the customer has no order today and
\* the confirmation is not checked, once one is accepted the other one is not
\* accepted any more.
C17_OneUnconfirmedOrder ==
    [][\A i \in PostsInFlight : \A j \in PostsInFlight \ {i} :
          (srvOrders = <<>> /\ ~repeatChecked /\ PostAccepted(i)) =>
              Validate(posts'[j].payload, srvMenu', srvOrders', srvCompany', now') # "OK"]_vars

\* the Order an accepting step has appended
NewOrder == srvOrders'[Len(srvOrders')]

\* C18: every line of an accepted order carries the item's price in the
\* server's menu at the moment the POST is handled, and the order's subtotal
\* is computed from these prices; whatever names and prices the cart had
\* captured, the same order results.
C18_ServerPricing ==
    [][/\ \A i \in PostsInFlight : PostAccepted(i) =>
             /\ \A l \in NewOrder.items : l.price = srvMenu[l.menu_item_id].price
             /\ {[menu_item_id |-> l.menu_item_id, qty |-> l.qty] : l \in NewOrder.items}
                   = posts[i].payload.items
             /\ NewOrder.subtotal = SumOrderItems(NewOrder.items)
       /\ PostSent =>
             \A f \in [DOMAIN cart.items -> Versions] :
             \A srv \in [Items -> Versions] :
                MakeOrder(BuildPayload(Recaptured(cart, f), extras, settings,
                                       todayOrdersCount, repeatChecked), srv)
                   = MakeOrder(posts'[Len(posts')].payload, srv)]_vars

\* C18 witness: the dish was fetched at 10.10, added twice, then raised to
\* 12.20 by the restaurant; the order holds two portions at 12.20
C18_Witness ==
    /\ 1 \in DOMAIN menu.items /\ menu.items[1].price = 1010
    /\ Len(srvOrders) = 1
    /\ srvOrders[1].items = {[menu_item_id |-> 1, qty |-> 2, price |-> 1220]}
    /\ srvOrders[1].subtotal = 2440

TodayLoaded == InitToday \/ \E i \in 1..Len(posts) : SubmitTodayLoaded(i)

C21_ExactMoney ==
    LET a == CartAmounts(cart, extras, settings)
        sub == ExactLines(cart, DOMAIN cart.items)
        fee == IF extras.cutlery THEN SettingOrZero(settings, "cutlery_price") ELSE 0
    IN  /\ a.subtotal = ToNumber(sub)
        /\ a.total = ToNumber(sub + SettingOrZero(settings, "delivery_fee") + fee)

\* C22 (as claimed): at most one POST /api/v1/orders sent by submitOrder is
\* awaiting its response at any time; a click on checkout while one is
\* awaited sends no second POST.
C22_OnePostOutstanding ==
    /\ Cardinality(PostsInFlight) <= 1
    /\ [][PostSent => PostsInFlight = {}]_vars

\* C23 (as claimed): the cart that an accepted submission clears is the cart
\* its payload was built from: lines, notes and payment method changed while
\* the POST was awaited are not discarded by the success response.
C23_ClearsWhatWasSubmitted ==
    [][\A i \in PostsInFlight : PostAccepted(i) =>
          LET p == posts[i].payload IN
          /\ p.items = {[menu_item_id |-> k, qty |-> cart.items[k].qty] : k \in DOMAIN cart.items}
          /\ p.notes = cart.notes
          /\ p.payment_method = cart.payment_method]_vars

\* C24 (as claimed): the displayed menu is that of the most recently clicked
\* tab: the response to a click that arrives after the response to a later
\* click has been applied leaves state.menu as that later response made it.
C24_LatestTabWins ==
    [][\A i \in 1..Len(menuReqs) :
          (TabMenuLoaded(i) /\ menuReqs[i].superseded) => menu' = menu]_vars

\* C25 (as claimed): once an order is accepted, the end of the follow-up GET
\* /api/v1/orders/me/today, answered or failed, sets no error message (the
\* success message stays) and leaves the rendered cart list, the totals and
\* the checkout button as the emptied cart demands.
C25_MessageIsOutcome ==
    [][\A i \in 1..Len(posts) :
          (posts[i].phase = "today" /\ (SubmitTodayLoaded(i) \/ SubmitFetchFail(i))) =>
              /\ message' = message
              /\ cartDom' = RenderCart(cart')
              /\ summary' = CartSummary(cart', extras', settings')
              /\ checkoutDisabled' =
                    CheckoutDisabled(cart', me', todayOrdersCount', repeatChecked')]_vars

\* C26 (as claimed): every POST /api/v1/orders the page sends carries at
\* least one item and a payment method.
C26_PostIsComplete ==
    [][PostSent =>
          LET p == posts'[Len(posts')].payload
          IN  p.items # {} /\ p.payment_method # ""]_vars

\* C27 (as claimed): the repeat-order confirmation is per order: when the
\* handling of an accepted order ends, the confirmation checkbox is
\* unchecked, so the next order of the day needs a new confirmation.
C27_ConfirmationPerOrder ==
    [][\A i \in 1..Len(posts) :
          (posts[i].phase = "today" /\ SubmitTodayLoaded(i)) => ~repeatChecked']_vars
====
